---- MODULE Spec2Model ----
(***************************************************************************)
(* Message query API of oasst_backend (api/v1/messages.py): the message    *)
(* store, the cursor pagination handler, the tree navigation handlers and  *)
(* the soft-delete handler.                                                *)
(*                                                                         *)
(* Optional values are sequences: None is <<>> and a present value v is    *)
(* <<v>>.  A string is a sequence of text tokens: str(uuid) is one token,  *)
(* datetime.isoformat() is one token, "$" is one token.                    *)
(***************************************************************************)
EXTENDS Integers, Sequences, FiniteSets, TLC

\* Bounds of the model.
MaxMsgs == 2
MaxTime == 2
MaxCount == 2
ScanMsgs == 3
TreeMsgs == 4
ExampleMsgs == 5

VARIABLES messages, resp, scan, interleaved

vars == <<messages, resp, scan, interleaved>>

None == <<>>
Some(v) == <<v>>

Ids == 1..MaxMsgs
Times == 1..MaxTime
Counts == 1..MaxCount

\* ------------------------------------------------------------------ text

\* str(uuid): the text of each id.
UuidText == <<"u1", "u2", "u3", "u4", "u5", "u6", "u7", "u8", "u9">>

\* datetime.isoformat(): the text of each timestamp.
IsoText == <<"t1", "t2", "t3", "t4", "t5", "t6", "t7", "t8", "t9">>

\* A second text of each timestamp that fromisoformat() reads and
\* isoformat() never writes (a blank for the "T").
IsoAlt == <<"T1", "T2", "T3", "T4", "T5", "T6", "T7", "T8", "T9">>

str(id) == <<UuidText[id]>>

isoformat(t) == <<IsoText[t]>>

\* datetime.fromisoformat(s): Some(t), or None for ValueError.
fromisoformat(s) ==
  IF Len(s) = 1 /\ \E t \in DOMAIN IsoText : IsoText[t] = s[1] \/ IsoAlt[t] = s[1]
  THEN Some(CHOOSE t \in DOMAIN IsoText : IsoText[t] = s[1] \/ IsoAlt[t] = s[1])
  ELSE None

\* UUID(s) for a text the pattern matched.
UUID(s) == CHOOSE i \in DOMAIN UuidText : UuidText[i] = s[1]

\* utils.split_uuid_pattern.match(x): "^(<uuid>)\$(.*)$"; None for no match.
split_uuid_pattern_match(x) ==
  IF Len(x) >= 2 /\ x[2] = "$" /\ \E i \in DOMAIN UuidText : UuidText[i] = x[1]
  THEN Some([g1 |-> <<x[1]>>, g2 |-> SubSeq(x, 3, Len(x))])
  ELSE None

\* split_cursor with the ValueError swallowed: the bound is dropped.
split_cursor_lenient(x) ==
  IF x = None \/ x = Some(<<>>)
  THEN [raised |-> FALSE, date |-> None, id |-> None]
  ELSE LET m == split_uuid_pattern_match(x[1]) IN
       IF m # None /\ fromisoformat(m[1].g2) # None
       THEN [raised |-> FALSE, date |-> fromisoformat(m[1].g2), id |-> Some(UUID(m[1].g1))]
       ELSE [raised |-> FALSE, date |-> fromisoformat(x[1]), id |-> None]

\* split_cursor(x): raised is the OasstError INVALID_CURSOR_VALUE.
split_cursor(x) ==
  IF x = None \/ x = Some(<<>>)
  THEN [raised |-> FALSE, date |-> None, id |-> None]
  ELSE LET m == split_uuid_pattern_match(x[1]) IN
       IF m # None
       THEN LET d == fromisoformat(m[1].g2) IN
            IF d = None
            THEN [raised |-> TRUE, date |-> None, id |-> None]
            ELSE [raised |-> FALSE, date |-> d, id |-> Some(UUID(m[1].g1))]
       ELSE LET d == fromisoformat(x[1]) IN
            IF d = None
            THEN [raised |-> TRUE, date |-> None, id |-> None]
            ELSE [raised |-> FALSE, date |-> d, id |-> None]

\* ----------------------------------------------------------------- store

\* (created_date, id) of a < (created_date, id) of b.
KeyLess(a, b) ==
  \/ a.created_date < b.created_date
  \/ a.created_date = b.created_date /\ a.id < b.id

RECURSIVE SortAsc(_)
SortAsc(S) ==
  IF S = {} THEN <<>>
  ELSE LET m == CHOOSE x \in S : \A y \in S \ {x} : KeyLess(x, y)
       IN <<m>> \o SortAsc(S \ {m})

Reverse(s) == [i \in 1..Len(s) |-> s[Len(s) + 1 - i]]

Take(s, limit) ==
  IF limit = None \/ Len(s) <= limit[1] THEN s ELSE SubSeq(s, 1, limit[1])

\* The lower cursor bound of the query.
AfterLower(m, gte_created_date, gt_id) ==
  IF gte_created_date = None THEN TRUE
  ELSE IF gt_id # None
       THEN \/ m.created_date > gte_created_date[1]
            \/ m.created_date = gte_created_date[1] /\ m.id > gt_id[1]
       ELSE m.created_date >= gte_created_date[1]

\* The upper cursor bound of the query.
BeforeUpper(m, lte_created_date, lt_id) ==
  IF lte_created_date = None THEN TRUE
  ELSE IF lt_id # None
       THEN \/ m.created_date < lte_created_date[1]
            \/ m.created_date = lte_created_date[1] /\ m.id < lt_id[1]
       ELSE m.created_date <= lte_created_date[1]

\* PromptRepository.query_messages_ordered_by_created_date.
query_messages_ordered_by_created_date(store, gte_created_date, gt_id, lte_created_date, lt_id, only_roots, deleted, desc, limit) ==
  LET rows == {store[i] : i \in DOMAIN store}
      hit == {m \in rows :
                /\ AfterLower(m, gte_created_date, gt_id)
                /\ BeforeUpper(m, lte_created_date, lt_id)
                /\ (only_roots => m.parent_id = None)
                /\ (deleted # None => m.deleted = deleted[1])}
      asc == SortAsc(hit)
  IN Take(IF desc THEN Reverse(asc) ELSE asc, limit)

\* utils.prepare_message: the protocol.Message of a stored message.
prepare_message(m) ==
  [id |-> m.id, parent_id |-> m.parent_id, created_date |-> m.created_date]

\* utils.prepare_message_list.
prepare_message_list(ms) == [i \in 1..Len(ms) |-> prepare_message(ms[i])]

\* ------------------------------------------------------------- handlers

\* deleted_arg without the filter.
deleted_arg_none(allow_deleted) == None

\* The deleted argument the list handlers pass to the repository.
deleted_arg(allow_deleted) == IF allow_deleted THEN None ELSE Some(FALSE)

\* item_cursor with the timestamp alone.
item_cursor_dateonly(item) == isoformat(item.created_date)

\* "<id>$<created_date>" of an item.
item_cursor(item) == str(item.id) \o <<"$">> \o isoformat(item.created_date)

\* prev_token with "and" for "or".
prev_token_and(items, max_count, gte_created_date) ==
  IF Len(items) > 0
  THEN IF Len(items) = max_count /\ gte_created_date # None
       THEN Some(item_cursor(items[1]))
       ELSE None
  ELSE IF gte_created_date # None THEN Some(isoformat(gte_created_date[1]))
       ELSE None

\* The prev token of a page.
prev_token(items, max_count, gte_created_date) ==
  IF Len(items) > 0
  THEN IF Len(items) = max_count \/ gte_created_date # None
       THEN Some(item_cursor(items[1]))
       ELSE None
  ELSE IF gte_created_date # None THEN Some(isoformat(gte_created_date[1]))
       ELSE None

\* next_token of the first row of the page.
next_token_first(items, max_count, lte_created_date) ==
  IF Len(items) > 0
  THEN IF Len(items) = max_count \/ lte_created_date # None
       THEN Some(item_cursor(items[1]))
       ELSE None
  ELSE IF lte_created_date # None THEN Some(isoformat(lte_created_date[1]))
       ELSE None

\* next_token without the echo of the bound on an empty page.
next_token_noecho(items, max_count, lte_created_date) ==
  IF Len(items) > 0
  THEN IF Len(items) = max_count \/ lte_created_date # None
       THEN Some(item_cursor(items[Len(items)]))
       ELSE None
  ELSE None

\* The next token of a page.
next_token(items, max_count, lte_created_date) ==
  IF Len(items) > 0
  THEN IF Len(items) = max_count \/ lte_created_date # None
       THEN Some(item_cursor(items[Len(items)]))
       ELSE None
  ELSE IF lte_created_date # None THEN Some(isoformat(lte_created_date[1]))
       ELSE None

\* get_messages_cursor without the ids of the cursors.
get_messages_cursor_noid(store, lt, gt, only_roots, include_deleted, max_count, desc) ==
  LET upper == split_cursor(lt)
      lower == IF upper.raised THEN upper ELSE split_cursor(gt)
  IN IF upper.raised \/ lower.raised
     THEN [status |-> "INVALID_CURSOR_VALUE", queried |-> FALSE, page |-> None]
     ELSE LET found == query_messages_ordered_by_created_date(
                         store, lower.date, None, upper.date, None,
                         only_roots, deleted_arg(include_deleted), desc,
                         Some(max_count))
              items == prepare_message_list(found)
          IN [status |-> "ok", queried |-> TRUE,
              page |-> Some([prev |-> prev_token(items, max_count, lower.date),
                             next |-> next_token(items, max_count, upper.date),
                             sort_key |-> "created_date",
                             order |-> IF desc THEN "desc" ELSE "asc",
                             items |-> items])]

\* get_messages_cursor: the outcome of one call on a store.
get_messages_cursor(store, lt, gt, only_roots, include_deleted, max_count, desc) ==
  LET upper == split_cursor(lt)
      lower == IF upper.raised THEN upper ELSE split_cursor(gt)
  IN IF upper.raised \/ lower.raised
     THEN [status |-> "INVALID_CURSOR_VALUE", queried |-> FALSE, page |-> None]
     ELSE LET found == query_messages_ordered_by_created_date(
                         store, lower.date, lower.id, upper.date, upper.id,
                         only_roots, deleted_arg(include_deleted), desc,
                         Some(max_count))
              items == prepare_message_list(found)
          IN [status |-> "ok", queried |-> TRUE,
              page |-> Some([prev |-> prev_token(items, max_count, lower.date),
                             next |-> next_token(items, max_count, upper.date),
                             sort_key |-> "created_date",
                             order |-> IF desc THEN "desc" ELSE "asc",
                             items |-> items])]

\* query_messages: the list one call returns.
query_messages(store, max_count, start_date, end_date, only_roots, desc, allow_deleted) ==
  prepare_message_list(
    query_messages_ordered_by_created_date(
      store, start_date, None, end_date, None, only_roots,
      deleted_arg(allow_deleted), desc, Some(max_count)))

Idle == [op |-> "idle"]

\* The stored message of an insert: a root is its own tree.
new_message(store, id, parent, t) ==
  [id |-> id, parent_id |-> parent,
   message_tree_id |-> IF parent = None THEN id ELSE store[parent[1]].message_tree_id,
   created_date |-> t, deleted |-> FALSE]

\* mark_messages_deleted flipping the flag.
mark_messages_deleted_toggle(store, id) ==
  [i \in DOMAIN store |->
     IF i = id THEN [store[i] EXCEPT !.deleted = ~store[i].deleted] ELSE store[i]]

\* PromptRepository.mark_messages_deleted: the store after the soft delete.
mark_messages_deleted(store, id) ==
  [i \in DOMAIN store |-> IF i = id THEN [store[i] EXCEPT !.deleted = TRUE] ELSE store[i]]

\* ------------------------------------------------------- tree handlers

\* PromptRepository.fetch_message: None is NotFound.
fetch_message(store, message_id) ==
  IF message_id \in DOMAIN store THEN Some(store[message_id]) ELSE None

\* The walk up the parent links: path runs from m down to the message asked
\* for; a parent met twice or missing is a TreeIntegrityError.
RECURSIVE ancestor_walk(_, _, _)
ancestor_walk(store, m, path) ==
  IF m.parent_id = None
  THEN [status |-> "ok", messages |-> <<m>> \o path]
  ELSE IF \/ m.parent_id[1] \notin DOMAIN store
          \/ \E j \in 1..Len(path) : path[j].id = m.parent_id[1]
          \/ m.parent_id[1] = m.id
       THEN [status |-> "TreeIntegrityError", messages |-> <<>>]
       ELSE ancestor_walk(store, store[m.parent_id[1]], <<m>> \o path)

\* fetch_message_conversation that stops at the parent.
fetch_message_conversation_short(store, message_id) ==
  LET m == fetch_message(store, message_id) IN
  IF m = None THEN [status |-> "NotFound", messages |-> <<>>]
  ELSE IF m[1].parent_id = None THEN [status |-> "ok", messages |-> <<m[1]>>]
       ELSE [status |-> "ok", messages |-> <<store[m[1].parent_id[1]], m[1]>>]

\* PromptRepository.fetch_message_conversation: root, ..., message.
fetch_message_conversation(store, message_id) ==
  LET m == fetch_message(store, message_id) IN
  IF m = None THEN [status |-> "NotFound", messages |-> <<>>]
  ELSE ancestor_walk(store, m[1], <<>>)

\* utils.prepare_conversation.
prepare_conversation(ms) == [messages |-> prepare_message_list(ms)]

\* get_conv: the outcome of one call on a store.
get_conv(store, message_id) ==
  LET r == fetch_message_conversation(store, message_id) IN
  IF r.status = "ok"
  THEN [status |-> "ok", conversation |-> Some(prepare_conversation(r.messages))]
  ELSE [status |-> r.status, conversation |-> None]

\* PromptRepository.fetch_message_children: by created_date.
fetch_message_children(store, rows, parent_id) ==
  SortAsc({m \in rows : m.parent_id = Some(parent_id)})

\* The subtrees of a sequence of messages, each parent before its children.
RECURSIVE subtrees(_, _, _)
subtrees(store, rows, ms) ==
  IF ms = <<>> THEN <<>>
  ELSE <<ms[1]>> \o subtrees(store, rows, fetch_message_children(store, rows, ms[1].id))
                 \o subtrees(store, rows, Tail(ms))

\* PromptRepository.fetch_message_descendants: one query over the
\* message_tree_id, then the grouping by parent_id below the message.
fetch_message_descendants(store, message) ==
  LET rows == {store[i] : i \in {x \in DOMAIN store :
                 store[x].message_tree_id = message.message_tree_id}}
  IN subtrees(store, rows, <<message>>)

\* utils.prepare_tree.
prepare_tree(ms, tree_id) == [id |-> tree_id, messages |-> prepare_message_list(ms)]

\* get_descendants with the children for the descendants.
get_descendants_children(store, message_id) ==
  LET m == fetch_message(store, message_id) IN
  IF m = None THEN [status |-> "NotFound", tree |-> None]
  ELSE [status |-> "ok",
        tree |-> Some(prepare_tree(
                   fetch_message_children(store, {store[i] : i \in DOMAIN store}, m[1].id),
                   m[1].id))]

\* get_descendants: the outcome of one call on a store.
get_descendants(store, message_id) ==
  LET m == fetch_message(store, message_id) IN
  IF m = None THEN [status |-> "NotFound", tree |-> None]
  ELSE [status |-> "ok",
        tree |-> Some(prepare_tree(fetch_message_descendants(store, m[1]), m[1].id))]

\* ---------------------------------------------------------------- client

\* A client paging through the messages; late holds the ids inserted since
\* the scan started, interleaved (a variable) those inserted between the
\* boundary rows of the pages some scan had fetched.
ScanIdle ==
  [phase |-> "idle", k |-> 1, only_roots |-> FALSE, include_deleted |-> FALSE,
   cursor |-> None, acc |-> <<>>, last |-> None, npages |-> 0,
   late |-> {}]

ItemIds(items) == [i \in 1..Len(items) |-> items[i].id]

\* The scan after the page of one more call.
scan_page(sc, page) ==
  [sc EXCEPT !.phase = IF page.next = None THEN "done" ELSE "running",
             !.cursor = page.next,
             !.acc = sc.acc \o ItemIds(page.items),
             !.last = Some(page),
             !.npages = sc.npages + 1]

\* An inserted row lies between the boundary rows of the pages fetched so far.
BetweenFetched(m) ==
  /\ scan.phase = "running"
  /\ Len(scan.acc) > 0
  /\ m.created_date >= messages[scan.acc[1]].created_date
  /\ KeyLess(m, messages[scan.acc[Len(scan.acc)]])

\* --------------------------------------------------------------- actions

\* A message is inserted (by the write path, outside this API).
InsertMessage(id, parent, t) ==
  /\ id \notin DOMAIN messages
  /\ parent # None => parent[1] \in DOMAIN messages
  /\ LET m == new_message(messages, id, parent, t) IN
     /\ messages' = [i \in DOMAIN messages \cup {id} |->
                       IF i = id THEN m ELSE messages[i]]
     /\ interleaved' = IF BetweenFetched(m) THEN interleaved \cup {id} ELSE interleaved
     /\ scan' = IF scan.phase = "idle" THEN scan
                ELSE [scan EXCEPT !.late = @ \cup {id}]
  /\ UNCHANGED resp

\* DELETE /{message_id}
mark_message_deleted(message_id, trusted) ==
  /\ resp = Idle
  /\ message_id \in DOMAIN messages
  /\ IF trusted
     THEN /\ messages' = mark_messages_deleted(messages, message_id)
          /\ resp' = [op |-> "delete", message_id |-> message_id,
                      trusted |-> trusted, status |-> "ok",
                      was_deleted |-> messages[message_id].deleted]
     ELSE /\ resp' = [op |-> "delete", message_id |-> message_id,
                      trusted |-> trusted, status |-> "PermissionDenied",
                      was_deleted |-> messages[message_id].deleted]
          /\ UNCHANGED messages
  /\ UNCHANGED <<scan, interleaved>>

\* GET /
QueryMessages(max_count, start_date, end_date, only_roots, desc, allow_deleted) ==
  /\ resp = Idle
  /\ resp' = [op |-> "query", max_count |-> max_count, start_date |-> start_date,
              end_date |-> end_date, only_roots |-> only_roots, desc |-> desc,
              allow_deleted |-> allow_deleted, status |-> "ok",
              items |-> query_messages(messages, max_count, start_date, end_date,
                                       only_roots, desc, allow_deleted)]
  /\ UNCHANGED <<messages, scan, interleaved>>

\* GET /cursor
GetMessagesCursor(lt, gt, only_roots, include_deleted, max_count, desc) ==
  /\ resp = Idle
  /\ LET r == get_messages_cursor(messages, lt, gt, only_roots, include_deleted,
                                  max_count, desc) IN
     resp' = [op |-> "cursor", lt |-> lt, gt |-> gt, only_roots |-> only_roots,
              include_deleted |-> include_deleted, max_count |-> max_count,
              desc |-> desc, status |-> r.status, queried |-> r.queried,
              page |-> r.page]
  /\ UNCHANGED <<messages, scan, interleaved>>

\* GET /{message_id}/conversation
GetConv(message_id) ==
  /\ resp = Idle
  /\ LET r == get_conv(messages, message_id) IN
     resp' = [op |-> "conversation", message_id |-> message_id,
              status |-> r.status, conversation |-> r.conversation]
  /\ UNCHANGED <<messages, scan, interleaved>>

\* GET /{message_id}/descendants
GetDescendants(message_id) ==
  /\ resp = Idle
  /\ LET r == get_descendants(messages, message_id) IN
     resp' = [op |-> "descendants", message_id |-> message_id,
              status |-> r.status, tree |-> r.tree]
  /\ UNCHANGED <<messages, scan, interleaved>>

\* The response is delivered; the handlers keep nothing between calls.
Return ==
  /\ resp # Idle
  /\ resp' = Idle
  /\ UNCHANGED <<messages, scan, interleaved>>

\* The client starts a scan: the first page, ascending, without bounds.
ScanStart(k, only_roots, include_deleted) ==
  /\ scan.phase \in {"idle", "done"}
  /\ resp = Idle
  /\ LET r == get_messages_cursor(messages, None, None, only_roots,
                                  include_deleted, k, FALSE) IN
     scan' = scan_page([ScanIdle EXCEPT !.k = k, !.only_roots = only_roots,
                                        !.include_deleted = include_deleted],
                       r.page[1])
  /\ UNCHANGED <<messages, resp, interleaved>>

\* The client fetches the following page: gt is the next token it holds.
ScanNext ==
  /\ scan.phase = "running"
  /\ resp = Idle
  /\ LET r == get_messages_cursor(messages, None, scan.cursor, scan.only_roots,
                                  scan.include_deleted, scan.k, FALSE) IN
     scan' = IF r.status = "ok" THEN scan_page(scan, r.page[1])
             ELSE [scan EXCEPT !.phase = "failed"]
  /\ UNCHANGED <<messages, resp, interleaved>>

\* ----------------------------------------------------- the list handlers

Parents(S) == {None} \cup {Some(p) : p \in S}

OptTimes == {None} \cup {Some(t) : t \in Times}

\* Cursor texts that match neither accepted shape.
Malformed == {<<"junk">>, <<"u1", "$", "junk">>, <<"u1", "$">>}

CursorInputs ==
  {None, Some(<<>>)}
    \cup {Some(str(i) \o <<"$">> \o isoformat(t)) : i \in Ids, t \in Times}
    \cup {Some(isoformat(t)) : t \in Times}
    \cup {Some(<<IsoAlt[1]>>)}
    \cup {Some(x) : x \in Malformed}

Init ==
  /\ messages = <<>>
  /\ resp = Idle
  /\ scan = ScanIdle
  /\ interleaved = {}

\* The cursor handler over a store of root messages.
Next ==
  \/ \E id \in Ids, t \in Times : InsertMessage(id, None, t)
  \/ \E lt \in CursorInputs, gt \in CursorInputs, max_count \in Counts, desc \in BOOLEAN :
       GetMessagesCursor(lt, gt, FALSE, FALSE, max_count, desc)
  \/ Return

Spec == Init /\ [][Next]_vars

\* Timestamp-only bounds, as the list handlers take them.
DateCursors == {None} \cup {Some(isoformat(t)) : t \in Times}

\* The list handlers and the soft delete.
NextDeleted ==
  \/ \E id \in Ids, t \in Times : InsertMessage(id, None, t)
  \/ \E id \in Ids, trusted \in BOOLEAN : mark_message_deleted(id, trusted)
  \/ \E max_count \in Counts, start_date \in OptTimes, end_date \in OptTimes,
        desc \in BOOLEAN, allow_deleted \in BOOLEAN :
       QueryMessages(max_count, start_date, end_date, FALSE, desc, allow_deleted)
  \/ \E lt \in DateCursors, gt \in DateCursors, include_deleted \in BOOLEAN,
        max_count \in Counts, desc \in BOOLEAN :
       GetMessagesCursor(lt, gt, FALSE, include_deleted, max_count, desc)
  \/ Return

SpecDeleted == Init /\ [][NextDeleted]_vars

ScanIds == 1..ScanMsgs

\* A client pages through the store while messages are inserted; messages
\* are soft-deleted before the client starts.
NextScan ==
  \/ \E id \in ScanIds, t \in Times : InsertMessage(id, None, t)
  \/ scan.phase = "idle" /\ \E id \in ScanIds : mark_message_deleted(id, TRUE)
  \/ Return
  \/ \E k \in Counts, include_deleted \in BOOLEAN : ScanStart(k, FALSE, include_deleted)
  \/ ScanNext

SpecScan == Init /\ [][NextScan]_vars

ExampleIds == 1..ExampleMsgs

\* The stores of ExampleMsgs root messages with strictly increasing
\* created_date: message number j has the id at[j] and the date j, or j + 1
\* from number skip on.
ExampleStores ==
  {[i \in ExampleIds |->
      LET j == CHOOSE n \in ExampleIds : at[n] = i IN
      [id |-> i, parent_id |-> None, message_tree_id |-> i,
       created_date |-> IF j < skip THEN j ELSE j + 1, deleted |-> FALSE]] :
     at \in {f \in [ExampleIds -> ExampleIds] :
               \A a, b \in ExampleIds : f[a] = f[b] => a = b},
     skip \in 1..(ExampleMsgs + 1)}

InitExample ==
  /\ messages \in ExampleStores
  /\ resp = Idle
  /\ scan = ScanIdle
  /\ interleaved = {}

\* The client reads the example store in pages of two.
NextExample ==
  \/ ScanStart(2, FALSE, FALSE)
  \/ ScanNext

SpecExample == InitExample /\ [][NextExample]_vars

TreeIds == 1..TreeMsgs

\* The tree handlers over a forest; the messages share one created_date.
NextTree ==
  \/ \E id \in TreeIds, parent \in Parents(TreeIds) : InsertMessage(id, parent, 1)
  \/ \E id \in TreeIds : mark_message_deleted(id, TRUE)
  \/ \E id \in TreeIds : GetConv(id)
  \/ \E id \in TreeIds : GetDescendants(id)
  \/ Return

SpecTree == Init /\ [][NextTree]_vars

\* --------------------------------------------------------------- claims

IsUuidText(c) == \E i \in DOMAIN UuidText : UuidText[i] = c

IsIsoText(c) == \E t \in DOMAIN IsoText : IsoText[t] = c \/ IsoAlt[t] = c

\* A cursor argument that bounds the query: a non-empty text.
Supplied(x) == x # None /\ x # Some(<<>>)

\* A non-empty text of neither the "<id>$<timestamp>" nor the timestamp shape.
IsMalformed(x) ==
  /\ Supplied(x)
  /\ ~(Len(x[1]) = 1 /\ IsIsoText(x[1][1]))
  /\ ~(Len(x[1]) = 3 /\ IsUuidText(x[1][1]) /\ x[1][2] = "$" /\ IsIsoText(x[1][3]))

\* The text "<id>$<created_date>" of the stored row of an item.
RowCursor(item) ==
  Some(<<UuidText[item.id], "$", IsoText[messages[item.id].created_date]>>)

\* The timestamp a well-formed cursor text ends with, as the timestamp-only
\* text isoformat() writes.
BoundOnly(x) ==
  LET c == x[1][Len(x[1])] IN
  Some(<<IsoText[CHOOSE t \in DOMAIN IsoText : IsoText[t] = c \/ IsoAlt[t] = c]>>)

\* A page was returned.
PageReturned == resp.op = "cursor" /\ resp.status = "ok"

\* C4: on a non-empty page, prev is present exactly when the page holds
\* max_count rows or gt was supplied, and is then the cursor of the first
\* row; next is present exactly when the page holds max_count rows or lt was
\* supplied, and is then the cursor of the last row; the page never holds
\* more than max_count rows.
C4_TokenConstruction ==
  (PageReturned /\ Len(resp.page[1].items) > 0) =>
    LET pg == resp.page[1]
        n == Len(pg.items)
    IN /\ n <= resp.max_count
       /\ (pg.prev # None) <=> (n = resp.max_count \/ Supplied(resp.gt))
       /\ (pg.prev # None) => pg.prev = RowCursor(pg.items[1])
       /\ (pg.next # None) <=> (n = resp.max_count \/ Supplied(resp.lt))
       /\ (pg.next # None) => pg.next = RowCursor(pg.items[n])

\* A short page below an upper bound that cuts a row off: next without prev.
C4_Witness ==
  /\ PageReturned
  /\ Cardinality(DOMAIN messages) = 2
  /\ Len(resp.page[1].items) = 1
  /\ resp.max_count = 2
  /\ Supplied(resp.lt) /\ ~Supplied(resp.gt)
  /\ resp.page[1].prev = None
  /\ resp.page[1].next # None

\* C5: on an empty page, prev is the timestamp of gt as a timestamp-only
\* cursor (absent when gt was not supplied), next is the timestamp of lt as
\* a timestamp-only cursor (absent when lt was not supplied).
C5_EmptyWindow ==
  (PageReturned /\ Len(resp.page[1].items) = 0) =>
    LET pg == resp.page[1]
    IN /\ pg.prev = (IF Supplied(resp.gt) THEN BoundOnly(resp.gt) ELSE None)
       /\ pg.next = (IF Supplied(resp.lt) THEN BoundOnly(resp.lt) ELSE None)
       /\ pg.prev # None => Len(pg.prev[1]) = 1 /\ ~IsUuidText(pg.prev[1][1])
       /\ pg.next # None => Len(pg.next[1]) = 1 /\ ~IsUuidText(pg.next[1][1])

\* An empty window above a cursor that names a row of a non-empty store.
C5_Witness ==
  /\ PageReturned
  /\ DOMAIN messages # {}
  /\ Len(resp.page[1].items) = 0
  /\ Supplied(resp.gt) /\ Len(resp.gt[1]) = 3
  /\ ~Supplied(resp.lt)
  /\ resp.page[1].prev = Some(<<resp.gt[1][3]>>)
  /\ resp.page[1].next = None

\* C6: a call with a malformed lt or gt fails with INVALID_CURSOR_VALUE,
\* returns no page, does not query the store and leaves it unchanged.
C6_MalformedRejected ==
  [][(resp = Idle /\ resp'.op = "cursor"
        /\ (IsMalformed(resp'.lt) \/ IsMalformed(resp'.gt))) =>
       /\ resp'.status = "INVALID_CURSOR_VALUE"
       /\ resp'.page = None
       /\ ~resp'.queried
       /\ messages' = messages]_vars

\* A malformed gt beside a well-formed lt, over a non-empty store.
C6_Witness ==
  /\ resp.op = "cursor"
  /\ DOMAIN messages # {}
  /\ IsMalformed(resp.gt)
  /\ Supplied(resp.lt) /\ ~IsMalformed(resp.lt)
  /\ resp.status = "INVALID_CURSOR_VALUE"

\* C7: a trusted delete of an already soft-deleted message succeeds and
\* leaves every message of the store as it was.
C7_DeleteIdempotent ==
  [][(resp = Idle /\ resp'.op = "delete" /\ resp'.trusted
        /\ messages[resp'.message_id].deleted) =>
       /\ resp'.status = "ok"
       /\ messages' = messages]_vars

\* A second delete of a message, beside another message that is not deleted.
C7_Witness ==
  /\ resp.op = "delete"
  /\ resp.trusted
  /\ resp.was_deleted
  /\ resp.status = "ok"
  /\ messages[resp.message_id].deleted
  /\ \E i \in DOMAIN messages : ~messages[i].deleted

\* A list response that was asked to leave deleted messages out.
HidesDeleted ==
  \/ resp.op = "query" /\ ~resp.allow_deleted
  \/ resp.op = "cursor" /\ resp.status = "ok" /\ ~resp.include_deleted

ListedItems == IF resp.op = "query" THEN resp.items ELSE resp.page[1].items

\* C8: query_messages with allow_deleted = false and get_messages_cursor with
\* include_deleted = false return no message whose deleted flag is set.
C8_DeletedHidden ==
  HidesDeleted =>
    \A k \in 1..Len(ListedItems) : ~messages[ListedItems[k].id].deleted

\* An unbounded page that leaves a deleted message out and returns another.
C8_Witness ==
  /\ resp.op = "cursor" /\ resp.status = "ok"
  /\ ~resp.include_deleted
  /\ resp.lt = None /\ resp.gt = None
  /\ \E i \in DOMAIN messages : messages[i].deleted
  /\ Len(resp.page[1].items) = 1
  /\ resp.max_count = 2

\* The rows the filters of the scan select.
ScanHit(i) ==
  /\ scan.only_roots => messages[i].parent_id = None
  /\ ~scan.include_deleted => ~messages[i].deleted

\* One query without bounds and without limit, in ascending order.
Unpaginated ==
  query_messages_ordered_by_created_date(
    messages, None, None, None, None, scan.only_roots,
    deleted_arg(scan.include_deleted), FALSE, None)

\* C1: over a store that did not change during the scan, the pages of a
\* finished scan, concatenated, are the rows the filters select, each once,
\* strictly ascending in (created_date, id): the sequence one unpaginated
\* query returns.
C1_RoundTrip ==
  (scan.phase = "done" /\ scan.late = {}) =>
    /\ scan.acc = ItemIds(Unpaginated)
    /\ \A j \in 1..(Len(scan.acc) - 1) :
         KeyLess(messages[scan.acc[j]], messages[scan.acc[j + 1]])
    /\ {scan.acc[j] : j \in 1..Len(scan.acc)} = {i \in DOMAIN messages : ScanHit(i)}

\* A finished scan of three calls over two rows of one created_date, with a
\* deleted row left out.
C1_Witness ==
  /\ scan.phase = "done" /\ scan.late = {}
  /\ scan.npages = 3
  /\ Len(scan.acc) = 2
  /\ messages[scan.acc[1]].created_date = messages[scan.acc[2]].created_date
  /\ ~scan.include_deleted
  /\ \E i \in DOMAIN messages : messages[i].deleted

\* C2: with messages inserted between the calls, a scan returns no row
\* twice, and a finished scan has returned every selected row that was in
\* the store when it started: so also the rows that were inserted between
\* the pages of an earlier scan.
C2_InsertStable ==
  /\ \A j, l \in 1..Len(scan.acc) : scan.acc[j] = scan.acc[l] => j = l
  /\ scan.phase = "done" =>
       \A i \in DOMAIN messages \ scan.late :
         ScanHit(i) => \E j \in 1..Len(scan.acc) : scan.acc[j] = i

\* A finished scan with an insert between its calls, which returned a row
\* that was inserted between the pages of an earlier scan.
C2_Witness ==
  /\ scan.phase = "done"
  /\ scan.npages >= 2
  /\ scan.late # {}
  /\ \E i \in interleaved \ scan.late :
       \E j \in 1..Len(scan.acc) : scan.acc[j] = i

\* The id of the message with the j-th smallest created_date.
ExampleRow(j) ==
  CHOOSE i \in DOMAIN messages :
    Cardinality({x \in DOMAIN messages :
                   messages[x].created_date < messages[i].created_date}) = j - 1

\* C3 as stated: the first page of two holds items 1 and 2, next is the
\* cursor of item 2 and prev is absent; the following page holds items 3
\* and 4.
C3_FirstPageNoPrev ==
  /\ scan.npages = 1 =>
       /\ ItemIds(scan.last[1].items) = <<ExampleRow(1), ExampleRow(2)>>
       /\ scan.last[1].next = RowCursor(scan.last[1].items[2])
       /\ scan.last[1].prev = None
  /\ scan.npages = 2 =>
       ItemIds(scan.last[1].items) = <<ExampleRow(3), ExampleRow(4)>>

\* C3, amended: the first page of two holds items 1 and 2, next is the
\* cursor of item 2 and prev is the cursor of item 1 (the page is full); the
\* following page holds items 3 and 4.
C3_FirstPageTokens ==
  /\ scan.npages = 1 =>
       /\ ItemIds(scan.last[1].items) = <<ExampleRow(1), ExampleRow(2)>>
       /\ scan.last[1].next = RowCursor(scan.last[1].items[2])
       /\ scan.last[1].prev = RowCursor(scan.last[1].items[1])
  /\ scan.npages = 2 =>
       ItemIds(scan.last[1].items) = <<ExampleRow(3), ExampleRow(4)>>

\* The following page, over a store whose ids do not ascend with the dates.
C3_Witness ==
  /\ scan.npages = 2
  /\ scan.acc = <<ExampleRow(1), ExampleRow(2), ExampleRow(3), ExampleRow(4)>>
  /\ ExampleRow(1) > ExampleRow(2)
  /\ ExampleRow(3) > ExampleRow(4)

\* The number of messages from the root of its tree down to message i.
RECURSIVE Depth(_)
Depth(i) ==
  IF messages[i].parent_id = None THEN 1 ELSE 1 + Depth(messages[i].parent_id[1])

TreeIdsOf(tree) == {tree.messages[j].id : j \in 1..Len(tree.messages)}

====
